---- MODULE Spec2Model ----
(***************************************************************************)
(* A model of the C1 case study: the POS star-schema ETL script            *)
(* (src/pipeline.py) and the Nutri-Score estimator (src/nutriscore.py).    *)
(*                                                                         *)
(* Text that the script splits, folds, trims, re-cases or sorts is a       *)
(* sequence of characters; a character is a short token ("e_acute" is      *)
(* U+00E9, "E_acute" U+00C9, "nl" a line feed).  Money is an integer       *)
(* number of currency units; a margin is an integer number of percent, so  *)
(* est_cost is kept multiplied by 100 (est_cost_x100).  A missing value    *)
(* (NaN/NA) of a                                                           *)
(* nullable column is the empty sequence NaN and a present value v is      *)
(* <<v>>.  The timestamp, top_group and the other "first" columns of       *)
(* fact_transactions are not part of any property below and are left out   *)
(* of the tables.  The float32 casts of lines 205-216, 250-260 and 301-309 *)
(* are not modelled: the amounts are integers.                             *)
(***************************************************************************)
EXTENDS Integers, Sequences, FiniteSets, TLC

\* ------------------------------------------------------------------ text

\* Unicode code points of the characters the inputs are built from.
CharCode ==
  [c \in {"nl", " ", "-", ":", ">",
          "A", "B", "C", "D", "E", "F", "G", "H", "I", "L", "M", "N", "O", "R",
          "S", "Y",
          "a", "b", "c", "d", "e", "f", "g", "h", "i", "l", "m", "n", "o", "r",
          "s", "y",
          "E_acute", "e_acute"} |->
     CASE c = "nl" -> 10 [] c = " " -> 32 [] c = "-" -> 45 [] c = ":" -> 58
       [] c = ">" -> 62 [] c = "I" -> 73 [] c = "R" -> 82
       [] c = "i" -> 105 [] c = "r" -> 114
       [] c = "A" -> 65 [] c = "B" -> 66 [] c = "C" -> 67 [] c = "D" -> 68
       [] c = "E" -> 69 [] c = "F" -> 70 [] c = "G" -> 71 [] c = "H" -> 72
       [] c = "L" -> 76 [] c = "M" -> 77 [] c = "N" -> 78 [] c = "O" -> 79
       [] c = "S" -> 83 [] c = "Y" -> 89
       [] c = "a" -> 97 [] c = "b" -> 98 [] c = "c" -> 99 [] c = "d" -> 100
       [] c = "e" -> 101 [] c = "f" -> 102 [] c = "g" -> 103 [] c = "h" -> 104
       [] c = "l" -> 108 [] c = "m" -> 109 [] c = "n" -> 110 [] c = "o" -> 111
       [] c = "s" -> 115 [] c = "y" -> 121
       [] c = "E_acute" -> 201 [] c = "e_acute" -> 233]

\* Python's str ordering: lexicographic by code point, a proper prefix first.
StrLess(a, b) ==
  \E i \in 1..Len(b) :
     /\ i <= Len(a) + 1
     /\ \A j \in 1..(i - 1) : a[j] = b[j]
     /\ (i = Len(a) + 1 \/ CharCode[a[i]] < CharCode[b[i]])

\* The first index at which sep occurs in s, 0 when it does not occur.
Find(s, sep) ==
  LET hits == {i \in 1..(Len(s) - Len(sep) + 1) :
                  \A k \in 1..Len(sep) : s[i + k - 1] = sep[k]}
  IN IF hits = {} THEN 0 ELSE CHOOSE i \in hits : \A j \in hits : i <= j

\* s.split(sep, n=1)[0]
SplitFirst(s, sep) ==
  LET i == Find(s, sep) IN IF i = 0 THEN s ELSE SubSeq(s, 1, i - 1)

\* s.split(sep, n=1)[-1]
SplitLast(s, sep) ==
  LET i == Find(s, sep) IN IF i = 0 THEN s ELSE SubSeq(s, i + Len(sep), Len(s))

IsSpace(c) == c \in {" ", "nl"}

\* str.strip(): leading and trailing whitespace removed.
Strip(s) ==
  LET keep == {i \in 1..Len(s) : ~IsSpace(s[i])}
  IN IF keep = {} THEN <<>>
     ELSE SubSeq(s, CHOOSE i \in keep : \A j \in keep : i <= j,
                    CHOOSE i \in keep : \A j \in keep : j <= i)

\* str.lower() on one character: every cased letter of the alphabet.
LowerChar(c) ==
  CASE c = "A" -> "a" [] c = "B" -> "b" [] c = "C" -> "c" [] c = "D" -> "d"
    [] c = "E" -> "e" [] c = "F" -> "f" [] c = "G" -> "g" [] c = "H" -> "h"
    [] c = "L" -> "l" [] c = "M" -> "m" [] c = "N" -> "n" [] c = "O" -> "o"
    [] c = "S" -> "s" [] c = "Y" -> "y" [] c = "E_acute" -> "e_acute"
    [] c = "I" -> "i" [] c = "R" -> "r"
    [] OTHER -> c

\* str.upper() on one character: every cased letter of the alphabet.
UpperChar(c) ==
  CASE c = "a" -> "A" [] c = "b" -> "B" [] c = "c" -> "C" [] c = "d" -> "D"
    [] c = "e" -> "E" [] c = "f" -> "F" [] c = "g" -> "G" [] c = "h" -> "H"
    [] c = "l" -> "L" [] c = "m" -> "M" [] c = "n" -> "N" [] c = "o" -> "O"
    [] c = "s" -> "S" [] c = "y" -> "Y" [] c = "e_acute" -> "E_acute"
    [] c = "i" -> "I" [] c = "r" -> "R"
    [] OTHER -> c

Lower(s) == [i \in 1..Len(s) |-> LowerChar(s[i])]

Upper(s) == [i \in 1..Len(s) |-> UpperChar(s[i])]

\* NFKD of one character followed by encode('ascii', 'ignore'): the base
\* letter of a decomposable accented letter, nothing for any other
\* non-ASCII character, the character itself when it is ASCII.
AsciiFoldChar(c) ==
  IF c = "e_acute" THEN <<"e">>
  ELSE IF c = "E_acute" THEN <<"E">>
  ELSE IF CharCode[c] > 127 THEN <<>> ELSE <<c>>

RECURSIVE AsciiFold(_)
AsciiFold(s) ==
  IF s = <<>> THEN <<>> ELSE AsciiFoldChar(Head(s)) \o AsciiFold(Tail(s))

\* -------------------------------------------------------- frame helpers

NaN == <<>>

\* Series.fillna(d) on one nullable value.
FillNa(v, d) == IF v = NaN THEN d ELSE v[1]

\* Lexicographic order of two group keys; kinds[i] is "int" or "str".
KeyLess(a, b, kinds) ==
  \E i \in 1..Len(kinds) :
     /\ \A j \in 1..(i - 1) : a[j] = b[j]
     /\ IF kinds[i] = "int" THEN a[i] < b[i] ELSE StrLess(a[i], b[i])

\* groupby(..., sort=True): the distinct keys in ascending order.
RECURSIVE SortKeys(_, _)
SortKeys(S, kinds) ==
  IF S = {} THEN <<>>
  ELSE LET m == CHOOSE x \in S : \A y \in S \ {x} : KeyLess(x, y, kinds)
       IN <<m>> \o SortKeys(S \ {m}, kinds)

Range(s) == {s[i] : i \in 1..Len(s)}

Count(s, v) == Cardinality({i \in 1..Len(s) : s[i] = v})

\* The values of s that occur most often (Series.mode() before sorting).
Modes(s) == {v \in Range(s) : \A w \in Range(s) : Count(s, w) <= Count(s, v)}

RECURSIVE SumSeq(_)
SumSeq(s) == IF s = <<>> THEN 0 ELSE Head(s) + SumSeq(Tail(s))

MaxOf(S) == CHOOSE v \in S : \A w \in S : w <= v

MinOf(S) == CHOOSE v \in S : \A w \in S : v <= w

StrMinOf(S) == CHOOSE v \in S : \A w \in S \ {v} : StrLess(v, w)

\* A tie-break by first occurrence, which the lambda of line 56 is not.
ModeFirstSeenStr(s) ==
  s[CHOOSE i \in 1..Len(s) :
      s[i] \in Modes(s) /\ \A j \in 1..(i - 1) : s[j] \notin Modes(s)]

\* lambda x: x.mode()[0] if not x.mode().empty else x.iloc[0], on text:
\* Series.mode() returns the modes sorted, so [0] is the smallest of them.
ModeOrFirstStr(s) == IF Modes(s) # {} THEN StrMinOf(Modes(s)) ELSE s[1]

\* A tie-break by first occurrence, which the lambda of line 123 is not.
ModeFirstSeenNum(s) ==
  s[CHOOSE i \in 1..Len(s) :
      s[i] \in Modes(s) /\ \A j \in 1..(i - 1) : s[j] \notin Modes(s)]

\* The same lambda on numbers.
ModeOrFirstNum(s) == IF Modes(s) # {} THEN MinOf(Modes(s)) ELSE s[1]

Column(rows, f) == [i \in 1..Len(rows) |-> rows[i][f]]

\* ----------------------------------------------------------------- state

VARIABLES
  pc,               \* the script's position: the next stage to run
  columns,          \* the column names of the POS sheet (after line 21-31)
  pos,              \* the POS sheet as read at line 18
  categories_sheet, \* the dim_categories sheet read at line 109
  raw_data,         \* the working frame raw_data
  dim_categories,
  items,
  transactions,
  line_items_final,
  dim_items,
  fact_line_items,
  sink,             \* per output table: "previous" or "current" run's rows
  svc,              \* what the text-generation service does on the call:
                    \* outcome "text" with the response text, or an error
                    \* with the text of str(e) and whether str(e) raises
  scored_item,      \* estimate_score's argument item_name
  stdout,           \* sys.stdout: its encoding, or "closed"
  call,             \* estimate_score: "ready", "waiting", "returned", "raised"
  score             \* what estimate_score returned

vars == <<pc, columns, pos, categories_sheet, raw_data, dim_categories, items,
          transactions, line_items_final, dim_items, fact_line_items, sink,
          svc, scored_item, stdout, call, score>>

frames == <<raw_data, dim_categories, items, transactions, line_items_final,
            dim_items, fact_line_items>>

inputs == <<columns, pos, categories_sheet>>

scoring == <<svc, scored_item, stdout, call, score>>

RequiredColumns ==
  {"check_id", "item_name", "category", "cost_center", "gross_revenue", "date",
   "sale_time_exact", "day_part", "is_beverage_on_check"}

Tables == {"dim_items", "dim_categories", "fact_transactions", "fact_line_items"}

\* The separator of line 36-37, ' - '.
GroupSep == <<" ", "-", " ">>

\* The separator of line 82-83, '>'.
CategorySep == <<">">>

\* --------------------------------------------------------- normalisation

\* Lines 36-37: group is the text before the first ' - ', item_name the
\* text after it; both are the whole text when there is no ' - '.
SplitItemNameRow(r) ==
  [r EXCEPT !.item_name = SplitLast(r.item_name, GroupSep)]
    @@ [group |-> SplitFirst(r.item_name, GroupSep)]

SplitItemName ==
  /\ pc = "split"
  /\ "item_name" \in columns
  /\ raw_data' = [i \in 1..Len(raw_data) |-> SplitItemNameRow(raw_data[i])]
  /\ pc' = "dedup"
  /\ UNCHANGED <<inputs, dim_categories, items, transactions, line_items_final,
                 dim_items, fact_line_items, sink, scoring>>

\* raw_data['item_name'] of a sheet without that column: KeyError at line 36.
SplitKeyError ==
  /\ pc = "split"
  /\ "item_name" \notin columns
  /\ pc' = "aborted"
  /\ UNCHANGED <<inputs, frames, sink, scoring>>

\* ---------------------------------------------------------- deduplication

\* A key on the category as written, which line 48 is not.
category_norm_unfolded(r) == r.category

\* Line 48: category_norm.
category_norm(r) == AsciiFold(r.category)

\* Line 51: group_keys, as the key of one row.
group_keys(r) ==
  <<r.check_id, r.item_name, r.date, r.sale_time_exact,
    r.is_beverage_on_check, r.cost_center, category_norm(r)>>

group_keys_kinds == <<"int", "str", "int", "int", "str", "str", "str">>

\* Lines 54-62: one row per key, the keys ascending; a group's rows keep
\* their order in the frame.
deduped(rows) ==
  LET keys == SortKeys({group_keys(rows[i]) : i \in 1..Len(rows)}, group_keys_kinds)
      grp(k) == SelectSeq(rows, LAMBDA r : group_keys(r) = k)
  IN [n \in 1..Len(keys) |->
        LET g == grp(keys[n])
        IN [check_id |-> g[1].check_id,
            item_name |-> g[1].item_name,
            date |-> g[1].date,
            sale_time_exact |-> g[1].sale_time_exact,
            is_beverage_on_check |-> g[1].is_beverage_on_check,
            cost_center |-> g[1].cost_center,
            gross_revenue |-> MaxOf(Range(Column(g, "gross_revenue"))),
            category |-> ModeOrFirstStr(Column(g, "category")),
            day_part |-> ModeOrFirstStr(Column(g, "day_part")),
            group |-> g[1].group]]

\* Lines 43-79.  rows_before is a Python int, so the percentage of line 69
\* divides by zero on an empty sheet (ZeroDivisionError); see DedupError.
Dedup ==
  /\ pc = "dedup"
  /\ RequiredColumns \subseteq columns
  /\ Len(raw_data) > 0
  /\ raw_data' = deduped(raw_data)
  /\ pc' = "clean"
  /\ UNCHANGED <<inputs, dim_categories, items, transactions, line_items_final,
                 dim_items, fact_line_items, sink, scoring>>

\* A missing column (KeyError at line 44 or 54) or an empty sheet
\* (ZeroDivisionError at line 69) ends the run here.
DedupError ==
  /\ pc = "dedup"
  /\ (~(RequiredColumns \subseteq columns) \/ Len(raw_data) = 0)
  /\ pc' = "aborted"
  /\ UNCHANGED <<inputs, frames, sink, scoring>>

\* Lines 82-92: category_main and sub_category are the trimmed text before
\* and after the first '>', is_beverage_on_check becomes a boolean.
CleanRow(r) ==
  [r EXCEPT !.is_beverage_on_check =
              (Strip(Lower(r.is_beverage_on_check)) = <<"y", "e", "s">>)]
    @@ [category_main |-> Strip(SplitFirst(r.category, CategorySep)),
        sub_category |-> Strip(SplitLast(r.category, CategorySep))]

CleanFields ==
  /\ pc = "clean"
  /\ raw_data' = [i \in 1..Len(raw_data) |-> CleanRow(raw_data[i])]
  /\ pc' = "categories"
  /\ UNCHANGED <<inputs, dim_categories, items, transactions, line_items_final,
                 dim_items, fact_line_items, sink, scoring>>

\* ------------------------------------------------------------- dimensions

\* Line 111: the margin of a margin group, in percent; NaN for a group the
\* mapping does not hold.
margin(margin_group) ==
  CASE margin_group = "Beverage" -> <<60>>
    [] margin_group = "Food" -> <<40>>
    [] margin_group = "Snacks" -> <<30>>
    [] OTHER -> NaN

\* Lines 109-111.
LoadCategories ==
  /\ pc = "categories"
  /\ dim_categories' =
       [i \in 1..Len(categories_sheet) |->
          categories_sheet[i] @@ [margin |-> margin(categories_sheet[i].margin_group)]]
  /\ pc' = "items"
  /\ UNCHANGED <<inputs, raw_data, items, transactions, line_items_final,
                 dim_items, fact_line_items, sink, scoring>>

\* The key of lines 121 and 162.
item_key(r) ==
  <<r.item_name, r.group, r.category_main, r.sub_category, r.cost_center>>

item_key_kinds == <<"str", "str", "str", "str", "str">>

\* Line 120: the rows a price is taken from.
priced(rows) == SelectSeq(rows, LAMBDA r : r.gross_revenue > 0)

\* Lines 119-125: per item key the unit price, the keys ascending.
mode_price(rows) ==
  LET src == priced(rows)
      keys == SortKeys({item_key(src[i]) : i \in 1..Len(src)}, item_key_kinds)
  IN [n \in 1..Len(keys) |->
        LET g == SelectSeq(src, LAMBDA r : item_key(r) = keys[n])
        IN [item_name |-> g[1].item_name,
            group |-> g[1].group,
            category_main |-> g[1].category_main,
            sub_category |-> g[1].sub_category,
            cost_center |-> g[1].cost_center,
            price |-> ModeOrFirstNum(Column(g, "gross_revenue"))]]

\* Lines 116-132.
BuildItems ==
  /\ pc = "items"
  /\ items' = LET mp == mode_price(raw_data)
              IN [n \in 1..Len(mp) |-> mp[n] @@ [item_id |-> n]]
  /\ pc' = "transactions"
  /\ UNCHANGED <<inputs, raw_data, dim_categories, transactions,
                 line_items_final, dim_items, fact_line_items, sink, scoring>>

\* ------------------------------------------------------------------ facts

\* Lines 136-148: one row per check_id, ascending.
BuildTransactions ==
  /\ pc = "transactions"
  /\ transactions' =
       LET keys == SortKeys({<<raw_data[i].check_id>> : i \in 1..Len(raw_data)},
                            <<"int">>)
       IN [n \in 1..Len(keys) |->
             LET g == SelectSeq(raw_data, LAMBDA r : r.check_id = keys[n][1])
             IN [transaction_id |-> n,
                 check_id |-> keys[n][1],
                 total_amount |-> SumSeq(Column(g, "gross_revenue")),
                 num_items |-> Len(g)]]
  /\ pc' = "line_items"
  /\ UNCHANGED <<inputs, raw_data, dim_categories, items, line_items_final,
                 dim_items, fact_line_items, sink, scoring>>

\* frame[cols] with the columns of nullable taken as nullable ones: after a
\* left merge they hold NaN where no row matched.
Project(frame, cols, nullable) ==
  [i \in 1..Len(frame) |->
     [f \in cols |-> IF f \in nullable THEN <<frame[i][f]>> ELSE frame[i][f]]]

\* DataFrame.merge(how='left') of one left row: one output row per right row
\* whose columns right_on equal the left row's columns left_on, in the right
\* frame's order; one row with NaN in the columns added when there is none.
MergeRow(l, right, left_on, right_on, added) ==
  LET found == SelectSeq(right, LAMBDA r :
                  \A k \in 1..Len(left_on) : l[left_on[k]] = r[right_on[k]])
  IN IF found = <<>> THEN <<l @@ [f \in added |-> NaN]>>
     ELSE [k \in 1..Len(found) |-> l @@ [f \in added |-> found[k][f]]]

RECURSIVE Flatten(_)
Flatten(ss) == IF ss = <<>> THEN <<>> ELSE Head(ss) \o Flatten(Tail(ss))

\* DataFrame.merge(how='left'): the left frame's order is kept.
LeftMerge(left, right, left_on, right_on, added) ==
  Flatten([i \in 1..Len(left) |-> MergeRow(left[i], right, left_on, right_on, added)])

item_key_columns == <<"item_name", "group", "category_main", "sub_category", "cost_center">>

\* Lines 155-177: the foreign keys are nullable after the left merges.
BuildLineItems ==
  /\ pc = "line_items"
  /\ line_items_final' =
       LET line_items ==
             Project(raw_data, {"check_id", "gross_revenue"} \cup Range(item_key_columns), {})
           withItem ==
             LeftMerge(line_items,
                       Project(items, {"item_id"} \cup Range(item_key_columns), {"item_id"}),
                       item_key_columns, item_key_columns, {"item_id"})
           withTxn ==
             LeftMerge(withItem,
                       Project(transactions, {"transaction_id", "check_id"},
                               {"transaction_id"}),
                       <<"check_id">>, <<"check_id">>, {"transaction_id"})
       IN [n \in 1..Len(withTxn) |->
             [line_item_id |-> n,
              transaction_id |-> withTxn[n].transaction_id,
              item_id |-> withTxn[n].item_id,
              gross_revenue |-> withTxn[n].gross_revenue]]
  /\ pc' = "dim_items"
  /\ UNCHANGED <<inputs, raw_data, dim_categories, items, transactions,
                 dim_items, fact_line_items, sink, scoring>>

\* ------------------------------------------------------- final clean-up

\* Lines 198-202 on one merged row: est_cost from the (nullable) margin,
\* then fillna(0).  The merged cat_level1, cat_level2 and cat_cost_center
\* columns are left out.
dim_items_row(m) ==
  [item_id |-> m.item_id,
   item_name |-> m.item_name,
   group |-> m.group,
   category |-> m.category,
   sub_category |-> m.sub_category,
   price |-> m.price,
   item_cost_center |-> m.item_cost_center,
   margin |-> FillNa(m.margin, 0),
   category_id |-> FillNa(m.category_id, 0),
   est_cost_x100 |-> IF m.margin = NaN THEN 0 ELSE m.price * (100 - m.margin[1])]

\* Lines 184-188: the columns of items under their final names.
renamed(it) ==
  [item_id |-> it.item_id, item_name |-> it.item_name, group |-> it.group,
   category |-> it.category_main, sub_category |-> it.sub_category,
   price |-> it.price, item_cost_center |-> it.cost_center]

\* Lines 184-216: the left merge with dim_categories yields one row per
\* matching reference row.
FinalDimItems ==
  /\ pc = "dim_items"
  /\ dim_items' =
       LET merged ==
             LeftMerge([n \in 1..Len(items) |-> renamed(items[n])],
                       Project(dim_categories,
                               {"cat_level1", "cat_level2", "cat_cost_center",
                                "margin", "category_id"},
                               {"category_id"}),
                       <<"category", "sub_category", "item_cost_center">>,
                       <<"cat_level1", "cat_level2", "cat_cost_center">>,
                       {"margin", "category_id"})
       IN [n \in 1..Len(merged) |-> dim_items_row(merged[n])]
  /\ pc' = "fact_line_items"
  /\ UNCHANGED <<inputs, raw_data, dim_categories, items, transactions,
                 line_items_final, fact_line_items, sink, scoring>>

\* numpy's round of a / b for b > 0: to the nearest integer, a tie to the
\* even one.
RoundHalfEven(a, b) ==
  LET q == a \div b
      r == a % b
  IN IF 2 * r < b THEN q
     ELSE IF 2 * r > b THEN q + 1
     ELSE IF q % 2 = 0 THEN q ELSE q + 1

\* Lines 278-279: gross_revenue / price is NaN for a missing price, and
\* fillna(0) comes before the rounding.  A price that is present is > 0
\* (line 120).
quantity(gross_revenue, price) ==
  IF price = NaN THEN 0 ELSE RoundHalfEven(gross_revenue, price[1])

\* Lines 274-298 on one merged row: margin and price are nullable here;
\* price is not in the fillna of line 289 and stays nullable.
fact_row(m) ==
  [line_item_id |-> m.line_item_id,
   transaction_id |-> FillNa(m.transaction_id, 0),
   item_id |-> FillNa(m.item_id, 0),
   gross_revenue |-> m.gross_revenue,
   margin |-> FillNa(m.margin, 0),
   price |-> m.price,
   est_cost_x100 |-> IF m.margin = NaN THEN 0
                     ELSE m.gross_revenue * (100 - m.margin[1]),
   est_profit_x100 |-> IF m.margin = NaN THEN 0
                       ELSE m.gross_revenue * 100 - m.gross_revenue * (100 - m.margin[1]),
   quantity |-> quantity(m.gross_revenue, m.price)]

\* Lines 263-309: the left merge with dim_items on item_id, one output row
\* per dim_items row of that item_id.
FinalFactLineItems ==
  /\ pc = "fact_line_items"
  /\ fact_line_items' =
       LET merged ==
             LeftMerge(line_items_final,
                       Project(dim_items, {"item_id", "margin", "price"},
                               {"item_id", "margin", "price"}),
                       <<"item_id">>, <<"item_id">>, {"margin", "price"})
       IN [n \in 1..Len(merged) |-> fact_row(merged[n])]
  /\ pc' = "write_dim_items"
  /\ UNCHANGED <<inputs, raw_data, dim_categories, items, transactions,
                 line_items_final, dim_items, sink, scoring>>

\* ------------------------------------------------------------------ sink

\* DataFrame.to_sql(table, engine, if_exists='replace'): the table of the
\* previous run is replaced by this run's.
to_sql(table, at, then) ==
  /\ pc = at
  /\ sink' = [sink EXCEPT ![table] = "current"]
  /\ pc' = then
  /\ UNCHANGED <<inputs, frames, scoring>>

\* Line 314.
WriteDimItems == to_sql("dim_items", "write_dim_items", "write_dim_categories")

\* Line 315.
WriteDimCategories ==
  to_sql("dim_categories", "write_dim_categories", "write_fact_transactions")

\* Line 316.
WriteFactTransactions ==
  to_sql("fact_transactions", "write_fact_transactions", "write_fact_line_items")

\* Line 317.
WriteFactLineItems == to_sql("fact_line_items", "write_fact_line_items", "done")

WriteStages ==
  {"write_dim_items", "write_dim_categories", "write_fact_transactions",
   "write_fact_line_items"}

\* A to_sql call raises (the store is locked, full or gone): the script has
\* no handler, so the run ends there; the tables written by the earlier
\* calls stay written.  The table of the failing call is taken as left in
\* place.
SinkError ==
  /\ pc \in WriteStages
  /\ pc' = "aborted"
  /\ UNCHANGED <<inputs, frames, sink, scoring>>

\* ------------------------------------------------------------ nutriscore

\* Line 43: the grades a response may name.
Grades == {<<"A">>, <<"B">>, <<"C">>, <<"D">>, <<"E">>}

\* Lines 46 and 52: the grade returned when there is no valid answer.
DefaultGrade == <<"C">>

\* Lines 40-46: the grade read from a response text.
parse_score(text) ==
  LET s == Upper(Strip(text))
  IN IF s \in Grades THEN s ELSE DefaultGrade

\* Line 48, except Exception: the failures the handler catches.  Both
\* generate_content (line 39) and response.text (line 40) raise subclasses
\* of Exception.
Caught == {"call_error", "text_error"}

\* Line 49: the f-string f"Error scoring {item_name}: {e}".
error_line(item_name, e) ==
  <<"E", "r", "r", "o", "r", " ", "s", "c", "o", "r", "i", "n", "g", " ">>
    \o item_name \o <<":", " ">> \o e

\* print(text) to the stream out: it raises ValueError on a closed stream
\* and UnicodeEncodeError when the stream's encoding (errors='strict')
\* cannot encode a character of the text.
print_raises(text, out) ==
  \/ out = "closed"
  \/ out = "ascii" /\ \E i \in 1..Len(text) : CharCode[text[i]] > 127

\* Lines 37-46: the service answers with a text.
EstimateScoreTry ==
  /\ call = "ready"
  /\ svc.outcome = "text"
  /\ score' = parse_score(svc.text)
  /\ call' = "returned"
  /\ UNCHANGED <<svc, scored_item, stdout, pc, inputs, frames, sink>>

\* Lines 48-49: the call or the read of its text raises; the handler
\* formats item_name and the error into a line and prints it.  When str(e)
\* raises, or the print does, that error leaves the handler and reaches the
\* caller; otherwise the handler sleeps (line 51).
EstimateScoreExcept ==
  /\ call = "ready"
  /\ svc.outcome # "text"
  /\ call' = IF /\ svc.outcome \in Caught
                /\ ~svc.str_raises
                /\ ~print_raises(error_line(scored_item, svc.text), stdout)
               THEN "waiting" ELSE "raised"
  /\ UNCHANGED <<svc, scored_item, stdout, score, pc, inputs, frames, sink>>

\* Lines 51-52: time.sleep(1) is over and the fallback grade is returned.
EstimateScoreFallback ==
  /\ call = "waiting"
  /\ score' = DefaultGrade
  /\ call' = "returned"
  /\ UNCHANGED <<svc, scored_item, stdout, pc, inputs, frames, sink>>

\* ----------------------------------------------------------------- inputs

MaxRows == 2

MaxKeyRows == 2

MaxModeRows == 3

MaxItemRows == 3

MaxTextLen == 3

T_a == <<"a">>
T_b == <<"b">>
T_c == <<"c">>
T_d == <<"d">>
T_l == <<"l">>
T_m == <<"m">>
T_e == <<"e">>
T_f == <<"f">>
T_e_acute == <<"e_acute">>
T_g_a == <<"g", " ", "-", " ", "a">>
T_h_a == <<"h", " ", "-", " ", "a">>
T_e_f == <<"e", " ", ">", " ", "f">>
T_Yes == <<"Y", "e", "s", " ">>
T_no == <<"n", "o">>

SeqsUpTo(S, n) == UNION {[1..k -> S] : k \in 0..n}

\* Sales of two items on two checks, with refunds and free items, for the
\* whole run.
RunRows ==
  [check_id : {1, 2}, item_name : {T_g_a, T_b}, category : {T_e_f, T_e},
   cost_center : {T_c}, gross_revenue : {-2, 0, 2, 3}, date : {1},
   sale_time_exact : {1}, day_part : {T_l}, is_beverage_on_check : {T_Yes}]

\* A base sale and the rows that differ from it in one component: the check,
\* the item, the date, the time, the beverage flag, the cost centre, the
\* category (by an accent only, or by a letter) and the group prefix alone.
KeyBase ==
  [check_id |-> 1, item_name |-> T_g_a, category |-> T_e, cost_center |-> T_c,
   gross_revenue |-> 1, date |-> 1, sale_time_exact |-> 1, day_part |-> T_l,
   is_beverage_on_check |-> T_Yes]

KeyVariants ==
  {KeyBase,
   [KeyBase EXCEPT !.check_id = 2],
   [KeyBase EXCEPT !.item_name = T_b],
   [KeyBase EXCEPT !.date = 2],
   [KeyBase EXCEPT !.sale_time_exact = 2],
   [KeyBase EXCEPT !.is_beverage_on_check = T_no],
   [KeyBase EXCEPT !.cost_center = T_d],
   [KeyBase EXCEPT !.category = T_e_acute],
   [KeyBase EXCEPT !.category = T_f],
   [KeyBase EXCEPT !.item_name = T_h_a]}

KeyRows == {[r EXCEPT !.gross_revenue = v] : r \in KeyVariants, v \in {1, 2}}

\* Repeated scans of one sale under category and day_part artifacts.
ModeRows ==
  [check_id : {1, 2}, item_name : {T_g_a, T_h_a}, category : {T_e, T_e_acute},
   cost_center : {T_c}, gross_revenue : {1}, date : {1}, sale_time_exact : {1},
   day_part : {T_l, T_m}, is_beverage_on_check : {T_Yes}]

\* Sales of two items at several amounts, each on one of three checks.
ItemRows ==
  [check_id : {1, 2, 3}, item_name : {T_a, T_b}, category : {T_e},
   cost_center : {T_c}, gross_revenue : {-1, 0, 1, 2}, date : {1},
   sale_time_exact : {1}, day_part : {T_l}, is_beverage_on_check : {T_Yes}]

SheetFood ==
  [category_id |-> 1, cat_level1 |-> T_e, cat_level2 |-> T_f,
   cat_cost_center |-> T_c, margin_group |-> "Food"]

SheetSnacks == [SheetFood EXCEPT !.category_id = 2, !.margin_group = "Snacks"]

SheetOther ==
  [category_id |-> 3, cat_level1 |-> T_e, cat_level2 |-> T_e,
   cat_cost_center |-> T_c, margin_group |-> "Other"]

SheetDrinks ==
  [category_id |-> 4, cat_level1 |-> T_f, cat_level2 |-> T_f,
   cat_cost_center |-> T_c, margin_group |-> "Beverage"]

Sheets ==
  {<<SheetFood>>, <<SheetOther>>, <<SheetDrinks>>, <<SheetFood, SheetSnacks>>}

\* The state when the script starts on the sheet pos: either every
\* required column is there, or one is missing from a one-row sheet.
Start(sheets_pos, sheets_cat) ==
  /\ pc = "split"
  /\ \/ columns = RequiredColumns /\ pos \in sheets_pos
     \/ /\ columns \in {RequiredColumns \ {c} : c \in RequiredColumns}
        /\ pos = <<KeyBase>>
  /\ categories_sheet \in sheets_cat
  /\ raw_data = pos
  /\ dim_categories = <<>>
  /\ items = <<>>
  /\ transactions = <<>>
  /\ line_items_final = <<>>
  /\ dim_items = <<>>
  /\ fact_line_items = <<>>
  /\ sink = [t \in Tables |-> "previous"]
  /\ svc = [outcome |-> "none", text |-> <<>>, str_raises |-> FALSE]
  /\ scored_item = <<>>
  /\ stdout = "utf-8"
  /\ call = "idle"
  /\ score = <<>>

Init == Start(SeqsUpTo(RunRows, MaxRows), Sheets)

InitDedup ==
  Start(SeqsUpTo(KeyRows, MaxKeyRows) \cup SeqsUpTo(ModeRows, MaxModeRows),
        {<<SheetFood>>})

InitItems == Start(SeqsUpTo(ItemRows, MaxItemRows), {<<SheetFood>>})

ResponseChars == {"A", "b", "c", "E", "F", " ", "nl"}

\* The texts of the errors the service raises.
ErrorTexts == {<<>>, T_d, T_e_acute}

InitScore ==
  /\ svc \in {[outcome |-> o, text |-> t, str_raises |-> b] :
                     o \in Caught, t \in ErrorTexts, b \in BOOLEAN}
             \cup {[outcome |-> "text", text |-> t, str_raises |-> FALSE] :
                     t \in SeqsUpTo(ResponseChars, MaxTextLen)}
  /\ scored_item \in {T_e, T_e_acute}
  /\ stdout \in {"utf-8", "ascii", "closed"}
  /\ call = "ready"
  /\ score = <<>>
  /\ pc = "idle"
  /\ columns = {}
  /\ pos = <<>>
  /\ categories_sheet = <<>>
  /\ raw_data = <<>>
  /\ dim_categories = <<>>
  /\ items = <<>>
  /\ transactions = <<>>
  /\ line_items_final = <<>>
  /\ dim_items = <<>>
  /\ fact_line_items = <<>>
  /\ sink = [t \in Tables |-> "previous"]

\* ---------------------------------------------------------- specifications

NextDedup == SplitItemName \/ SplitKeyError \/ Dedup \/ DedupError

NextItems == NextDedup \/ CleanFields \/ LoadCategories \/ BuildItems

Next ==
  \/ NextItems
  \/ BuildTransactions
  \/ BuildLineItems
  \/ FinalDimItems
  \/ FinalFactLineItems
  \/ WriteDimItems
  \/ WriteDimCategories
  \/ WriteFactTransactions
  \/ WriteFactLineItems
  \/ SinkError

NextScore == EstimateScoreTry \/ EstimateScoreExcept \/ EstimateScoreFallback

\* The whole run of the pipeline script.
Spec == Init /\ [][Next]_vars

\* The script up to the deduplicated frame (line 79).
SpecDedup == InitDedup /\ [][NextDedup]_vars

\* The script up to the items frame (line 132).
SpecItems == InitItems /\ [][NextItems]_vars

\* One call of NutriScoreEstimator.estimate_score.
SpecScore == InitScore /\ [][NextScore]_vars

\* ----------------------------------------------------------- properties

\* The four output frames are final: the script stands at or after line 314.
Finalised == pc \in WriteStages \cup {"done"}

Rows(frame) == {frame[i] : i \in 1..Len(frame)}

\* C1 (as claimed): referential integrity.  Every row of the final
\* fact_line_items has an item_id that is an item_id of dim_items and a
\* transaction_id that is a transaction_id of fact_transactions.
C1_ReferentialIntegrity ==
  Finalised =>
    \A f \in Rows(fact_line_items) :
       /\ \E d \in Rows(dim_items) : d.item_id = f.item_id
       /\ \E t \in Rows(transactions) : t.transaction_id = f.transaction_id

\* C2 (as claimed): revenue conservation.  The total_amount of all
\* transactions sums to the gross_revenue of all final line items, and each
\* transaction's total_amount is the sum of the gross_revenue of the final
\* line items that carry its transaction_id.
C2_RevenueConservation ==
  Finalised =>
    /\ SumSeq(Column(transactions, "total_amount"))
         = SumSeq(Column(fact_line_items, "gross_revenue"))
    /\ \A t \in Rows(transactions) :
         t.total_amount =
           SumSeq(Column(SelectSeq(fact_line_items,
                                   LAMBDA f : f.transaction_id = t.transaction_id),
                         "gross_revenue"))

\* C3 (as claimed): quantity bound.  Every final line item has quantity >= 0,
\* and quantity = 1 when its price is zero or undefined or its item is
\* unresolved.
C3_QuantityBound ==
  Finalised =>
    \A f \in Rows(fact_line_items) :
       /\ f.quantity >= 0
       /\ (f.price = NaN \/ f.price = <<0>> \/ f.item_id = 0) => f.quantity = 1

\* C5 (as claimed): atomic sink replace.  A run that has ended replaced all
\* four output tables if it completed and none of them if it aborted.
C5_AtomicSinkReplace ==
  /\ pc = "aborted" => \A t \in Tables : sink[t] = "previous"
  /\ pc = "done" => \A t \in Tables : sink[t] = "current"

\* C6 (as claimed): item key uniqueness.  No two rows of the final dim_items
\* share an item_id, and no two share (item_name, group, category,
\* sub_category, item_cost_center).
C6_ItemKeyUnique ==
  Finalised =>
    \A i, j \in 1..Len(dim_items) :
       i # j =>
         /\ dim_items[i].item_id # dim_items[j].item_id
         /\ <<dim_items[i].item_name, dim_items[i].group, dim_items[i].category,
              dim_items[i].sub_category, dim_items[i].item_cost_center>>
            # <<dim_items[j].item_name, dim_items[j].group, dim_items[j].category,
                dim_items[j].sub_category, dim_items[j].item_cost_center>>

\* An item of dim_items that no row of the category reference matches.
Unmatched(d) ==
  \A c \in Rows(dim_categories) :
     ~(/\ c.cat_level1 = d.category
       /\ c.cat_level2 = d.sub_category
       /\ c.cat_cost_center = d.item_cost_center)

\* C9 (as claimed): unmatched item defaults.  Every item is kept in
\* dim_items, and an item that no reference row matches has margin 0,
\* category_id 0 and est_cost = price * (1 - margin), which is its price.
C9_UnmatchedDefaults ==
  Finalised =>
    /\ \A it \in Rows(items) : \E d \in Rows(dim_items) : d.item_id = it.item_id
    /\ \A d \in Rows(dim_items) :
         Unmatched(d) =>
           /\ d.margin = 0
           /\ d.category_id = 0
           /\ d.est_cost_x100 = d.price * (100 - d.margin)
           /\ d.est_cost_x100 = 100 * d.price

\* The identity of a sale of the POS sheet: the six key columns, item_name
\* being the name without its group prefix, and the category with its
\* accents folded.
identity(r) ==
  <<r.check_id, SplitLast(r.item_name, GroupSep), r.date, r.sale_time_exact,
    r.is_beverage_on_check, r.cost_center, AsciiFold(r.category)>>

\* The rows of the POS sheet with the identity k, in sheet order.
Scans(k) == SelectSeq(pos, LAMBDA r : identity(r) = k)

\* The identity of a row of the deduplicated frame.
kept_identity(d) ==
  <<d.check_id, d.item_name, d.date, d.sale_time_exact,
    d.is_beverage_on_check, d.cost_center, AsciiFold(d.category)>>

\* The deduplicated frame stands in raw_data (line 79).
Deduplicated == pc = "clean"

\* C4: dedup correctness.  Rows of the sheet that agree on check_id,
\* item_name, date, sale_time_exact, is_beverage_on_check and cost_center
\* and whose categories are equal after accent folding are collapsed into
\* exactly one row, which carries the largest gross_revenue among them; rows
\* that differ on a component are not collapsed: the deduplicated frame has
\* one row per identity and no other row.
C4_DedupCollapses ==
  Deduplicated =>
    /\ \A r \in Rows(pos) :
         LET out == {n \in 1..Len(raw_data) : kept_identity(raw_data[n]) = identity(r)}
         IN /\ Cardinality(out) = 1
            /\ \A n \in out :
                 /\ \A q \in Rows(pos) :
                      identity(q) = identity(r) => q.gross_revenue <= raw_data[n].gross_revenue
                 /\ \E q \in Rows(pos) :
                      identity(q) = identity(r) /\ q.gross_revenue = raw_data[n].gross_revenue
    /\ Len(raw_data) = Cardinality({identity(r) : r \in Rows(pos)})

\* C4's case: two scans of one sale that differ by an accent of the
\* category and by the amount were collapsed into one row.
C4_Witness ==
  /\ Deduplicated
  /\ Len(pos) = 2
  /\ Len(raw_data) = 1
  /\ pos[1].category # pos[2].category
  /\ pos[1].gross_revenue < pos[2].gross_revenue

\* The value of vals that is seen first among the most frequent ones.
FirstSeenMode(vals) ==
  vals[CHOOSE i \in 1..Len(vals) :
         /\ vals[i] \in Modes(vals)
         /\ \A j \in 1..(i - 1) : vals[j] \notin Modes(vals)]

\* C8 (as claimed): dedup tie-break.  The retained category and day_part of
\* an identity group are the group's most frequent value, the one seen first
\* in sheet order when several are tied; the retained group is the group of
\* the first row.
C8_TieBreakFirstSeen ==
  Deduplicated =>
    \A d \in Rows(raw_data) :
       LET g == Scans(kept_identity(d))
       IN /\ d.category = FirstSeenMode(Column(g, "category"))
          /\ d.day_part = FirstSeenMode(Column(g, "day_part"))
          /\ d.group = SplitFirst(g[1].item_name, GroupSep)

\* v is a most frequent value of vals and sorts before every other one.
SmallestMode(v, vals) ==
  /\ v \in Modes(vals)
  /\ \A w \in Modes(vals) \ {v} : StrLess(v, w)

\* C8 (amended): the retained category and day_part are the group's most
\* frequent value, the smallest in code-point order when several are tied;
\* the retained group is the group of the first row in sheet order.
C8_TieBreakSmallest ==
  Deduplicated =>
    \A d \in Rows(raw_data) :
       LET g == Scans(kept_identity(d))
       IN /\ SmallestMode(d.category, Column(g, "category"))
          /\ SmallestMode(d.day_part, Column(g, "day_part"))
          /\ d.group = SplitFirst(g[1].item_name, GroupSep)

\* C8's case: two scans of one sale are tied on category and on day_part,
\* the first scan carries the larger value of each and a group prefix of its
\* own, and the collapsed row has the smaller values and the first prefix.
C8_Witness ==
  /\ Deduplicated
  /\ Len(pos) = 3
  /\ Len(raw_data) = 2
  /\ pos[1].check_id = 1 /\ pos[2].check_id = 1 /\ pos[3].check_id = 2
  /\ pos[1].category = T_e_acute /\ pos[2].category = T_e
  /\ pos[1].day_part = T_m /\ pos[2].day_part = T_l
  /\ pos[1].item_name = T_h_a /\ pos[2].item_name = T_g_a
  /\ raw_data[1].category = T_e
  /\ raw_data[1].day_part = T_l
  /\ raw_data[1].group = <<"h">>

\* The items frame stands (line 132).
ItemsBuilt == pc = "transactions"

\* The deduplicated rows of an item, in frame order.
Sales(it) == SelectSeq(raw_data, LAMBDA r : item_key(r) = item_key(it))

\* The non-zero amounts of an item's rows.
NonZeroAmounts(it) ==
  Column(SelectSeq(Sales(it), LAMBDA r : r.gross_revenue # 0), "gross_revenue")

\* The positive amounts of an item's rows.
PositiveAmounts(it) ==
  Column(SelectSeq(Sales(it), LAMBDA r : r.gross_revenue > 0), "gross_revenue")

AllDistinct(vals) == \A i, j \in 1..Len(vals) : i # j => vals[i] # vals[j]

\* C10 (as claimed): item unit price.  An item's price is the most frequent
\* non-zero gross_revenue of its deduplicated rows, and the first of these
\* values in row order when they are all distinct.
C10_PriceFirstSeen ==
  ItemsBuilt =>
    \A it \in Rows(items) :
       LET vals == NonZeroAmounts(it)
       IN /\ it.price \in Modes(vals)
          /\ AllDistinct(vals) => it.price = vals[1]

\* C10 (amended): an item's price is the most frequent positive
\* gross_revenue of its deduplicated rows, the smallest when several are
\* tied (so also when they are all distinct); the items are the item keys
\* that have a positive row, each once.
C10_PriceSmallestMode ==
  ItemsBuilt =>
    /\ \A it \in Rows(items) :
         LET vals == PositiveAmounts(it)
         IN /\ it.price \in Modes(vals)
            /\ \A w \in Modes(vals) : it.price <= w
    /\ \A r \in Rows(raw_data) :
         r.gross_revenue > 0 =>
           Cardinality({n \in 1..Len(items) : item_key(items[n]) = item_key(r)}) = 1

\* C10's case: an item sold once at each of two amounts, the larger first,
\* and refunded once; its price is the smaller amount.
C10_Witness ==
  /\ ItemsBuilt
  /\ Len(raw_data) = 3
  /\ Len(items) = 1
  /\ raw_data[1].gross_revenue = 2
  /\ raw_data[2].gross_revenue = 1
  /\ raw_data[3].gross_revenue = -1
  /\ item_key(raw_data[1]) = item_key(raw_data[2])
  /\ item_key(raw_data[2]) = item_key(raw_data[3])
  /\ items[1].price = 1

\* The letter of the grade that the character c names in either case.
GradeOfChar(c) ==
  CASE c \in {"A", "a"} -> <<"A">>
    [] c \in {"B", "b"} -> <<"B">>
    [] c \in {"C", "c"} -> <<"C">>
    [] c \in {"D", "d"} -> <<"D">>
    [] c \in {"E", "e"} -> <<"E">>
    [] OTHER -> <<>>

\* The text is one grade letter g, in either case, in whitespace only.
Answers(text, g) ==
  \E i \in 1..Len(text) :
     /\ GradeOfChar(text[i]) = g
     /\ \A j \in 1..Len(text) : j # i => IsSpace(text[j])

\* C7 (as claimed): scoring fallback.  A call of estimate_score never ends
\* with an error raised to the caller; it returns one of A, B, C, D, E: the
\* letter of the response when the response is one grade letter in
\* whitespace, and C for every other response and when the service call
\* fails.
C7_ScoringFallback ==
  /\ call # "raised"
  /\ call = "returned" =>
       /\ score \in Grades
       /\ \A g \in Grades :
            (svc.outcome = "text" /\ Answers(svc.text, g)) => score = g
       /\ (svc.outcome # "text" \/ \A g \in Grades : ~Answers(svc.text, g))
            => score = <<"C">>
====
